---- MODULE Spec2Model ----
\* State-machine model of libsddc (src/src/libsddc.c): the device handle
\* (struct sddc), the calls of the public API made on it, and the transport
\* (usb_device_...) and streaming-engine (streaming_...) calls that each API
\* call issues.  One action is one whole API call.  Every external call may
\* fail: the set `fail` of an action names the external calls that return
\* an error during that API call.
\*
\* Units: frequencies are integers in Hz, frequency correction is an integer
\* number of ppm, attenuations are integers in tenths of a dB.
EXTENDS Integers, Sequences, FiniteSets, TLC

\* ------------------------------------------------------------------------
\* Bounds of the model
\* ------------------------------------------------------------------------
MaxPpm == 1
MaxEngines == 1
MaxFailures == 1
\* largest requested tuner attenuation of a single call, in tenths of a dB
MaxTunerRequest == 520
\* largest requested HF attenuation of a single call, in tenths of a dB
MaxHfRequest == 325

\* the handles streaming_open_async can return when it succeeds
EngineHandles == 1..MaxEngines
\* the arguments of the calls of the state machine; the handle starts with
\* the defaults (64 MHz, 999 kHz, 0 ppm), and single calls with wide
\* argument ranges are the matter of CallSpec
PpmValues == {0, MaxPpm}
SampleRates == {32000000}
TunerFrequencies == {100000000}
\* HW_RX888 takes the branch of HW_BBRF103 in sddc_open
ModelIds == {"HW_NORADIO", "HW_BBRF103", "HW_HF103"}
FirmwareHi == {1}
FirmwareLo == {2}
RFModes == {"HF_MODE", "VHF_MODE", "INVALID_MODE"}
\* requested attenuations, in tenths of a dB
HFAttenuations == {100, 250}
TunerAttenuations == {50}
LedPatterns == {5}
\* the requests of a single tuner attenuation call, in tenths of a dB.  Left
\* out are the three requests in this range that in decimal lie midway between
\* two table entries but as doubles lie nearer to the higher one (21.8, 35.1
\* and 44.2): on every other request of the range the distances in tenths
\* order the table entries as the distances in double arithmetic do.
TunerRequests == ((0 - 20)..MaxTunerRequest) \ {218, 351, 442}
\* the requests of a single HF attenuation call, in tenths of a dB
HfRequests == (0 - 15)..MaxHfRequest
\* the model ids a probe can answer: the known ones and one that is not a
\* member of the enumeration
ProbeModelIds == ModelIds \cup {"HW_RX888", "HW_UNKNOWN"}
\* the values of a uint8_t LED pattern
LedBytes == 0..255
\* the values of the uint8_t answer to R820T2GETATT
IndexBytes == 0..255
\* values a read outside the table can give, in tenths of a dB
OutOfTableValues == {0 - 10, 0, 1000}

\* ------------------------------------------------------------------------
\* Program constants
\* ------------------------------------------------------------------------
DEFAULT_SAMPLE_RATE == 64000000
DEFAULT_TUNER_FREQUENCY == 999000
DEFAULT_FREQ_CORR_PPM == 0

GPIO_ADC_DITH == 64
GPIO_ADC_RAND == 128
GPIO_BIAS_HF == 256
GPIO_BIAS_VHF == 512
GPIO_LED_YELLOW == 1024
GPIO_LED_RED == 2048
GPIO_LED_BLUE == 4096
GPIO_ATT_SEL0 == 8192
GPIO_ATT_SEL1 == 16384
GPIO_LED_SHIFT == 10

\* LED_YELLOW | LED_RED | LED_BLUE of libsddc.h: the three LED bits of the
\* register, before the shift into their register position
LED_MASK == (GPIO_LED_YELLOW + GPIO_LED_RED + GPIO_LED_BLUE) \div (2 ^ GPIO_LED_SHIFT)

\* tuner_attenuations_table[], in tenths of a dB, indexed from 0 as in C
tuner_attenuations_seq ==
  << 0, 9, 14, 27, 37, 77, 87, 125, 144, 157, 166, 197, 207,
     229, 254, 280, 297, 328, 338, 364, 372, 386, 402, 421, 434,
     439, 445, 480, 496 >>
tuner_attenuations_table == [i \in 0..(Len(tuner_attenuations_seq) - 1) |-> tuner_attenuations_seq[i + 1]]

\* ------------------------------------------------------------------------
\* Helpers
\* ------------------------------------------------------------------------
Abs(x) == IF x < 0 THEN 0 - x ELSE x

\* bitwise AND of two naturals
RECURSIVE BitAnd(_, _)
BitAnd(a, b) ==
  IF a = 0 \/ b = 0 THEN 0
  ELSE (a % 2) * (b % 2) + 2 * BitAnd(a \div 2, b \div 2)

\* (int) x for a value x given in tenths: truncation toward zero
TruncTenths(x) == IF x >= 0 THEN x \div 10 ELSE 0 - ((0 - x) \div 10)

\* one external call, as recorded in the log of an API call
Call(cmd, data, fail) == [cmd |-> cmd, data |-> data, ok |-> cmd \notin fail]

\* the sets of external calls, among those of cmds, that fail during one API
\* call
FailSets(cmds) == {F \in SUBSET cmds : Cardinality(F) <= MaxFailures}

\* the external calls that can fail during sddc_start_streaming and
\* sddc_stop_streaming
StartFails ==
  FailSets({"SI5351A", "R820T2STDBY", "usb_device_gpio_set", "DAT31FX3",
            "R820T2SETATT", "streaming_start", "STARTFX3"})
StopFails == FailSets({"STOPFX3", "streaming_stop", "SI5351A"})

\* the result of a step that issues nothing
NoCalls == [ret |-> 0, cmds |-> << >>]

\* the value of the handle variable while no device handle exists
NoHandle == [status |-> "NONE", model |-> "NONE", firmware |-> 0,
             rf_mode |-> "NONE", streaming |-> 0,
             has_clock_source |-> FALSE, has_vhf_tuner |-> FALSE,
             hf_attenuator_levels |-> 0, sample_rate |-> 0,
             tuner_frequency |-> 0, freq_corr_ppm |-> 0]

VARIABLES
  this,             \* struct sddc of the open handle, NoHandle when there is none
  opened,           \* the handle as sddc_open returned it, NoHandle when there is none
  usb_open,         \* TRUE while the transport handle is open
  last,             \* the last API call: name, argument, result, external calls issued, handle before
  engine            \* the streaming engine: started or not, calls of its start since its last stop

vars == << this, opened, usb_open, last, engine >>

\* ------------------------------------------------------------------------
\* sddc_set_clock_source (internal)
\* ------------------------------------------------------------------------
\* (uint32_t) (frequency + 1e-6 * freq_corr_ppm * frequency), for values in
\* the range of a uint32_t: the conversion drops the fractional part
CorrectedWord(freq_corr_ppm, frequency) ==
  frequency + ((freq_corr_ppm * frequency) \div 1000000)

sddc_set_clock_source(h, adc_frequency, tuner_frequency, fail) ==
  LET data == << CorrectedWord(h.freq_corr_ppm, adc_frequency),
                 CorrectedWord(h.freq_corr_ppm, tuner_frequency) >>
      c == Call("SI5351A", data, fail)
  IN  [ret |-> IF c.ok THEN 0 ELSE -1, cmds |-> << c >>]

\* ------------------------------------------------------------------------
\* sddc_open / sddc_close
\* ------------------------------------------------------------------------
\* mutant: a model the switch does not name gets the flags of the BBRF103
Capabilities_default_capable(model) ==
  CASE model = "HW_HF103" ->
         [has_clock_source |-> FALSE, has_vhf_tuner |-> FALSE, hf_attenuator_levels |-> 32]
    [] OTHER ->
         [has_clock_source |-> TRUE, has_vhf_tuner |-> TRUE, hf_attenuator_levels |-> 3]

\* the switch on this->model of sddc_open
Capabilities(model) ==
  CASE model \in {"HW_BBRF103", "HW_RX888"} ->
         [has_clock_source |-> TRUE, has_vhf_tuner |-> TRUE, hf_attenuator_levels |-> 3]
    [] model = "HW_HF103" ->
         [has_clock_source |-> FALSE, has_vhf_tuner |-> FALSE, hf_attenuator_levels |-> 32]
    [] OTHER ->
         [has_clock_source |-> FALSE, has_vhf_tuner |-> FALSE, hf_attenuator_levels |-> 0]

\* mutant: a failed probe returns without closing the transport
sddc_open_no_release(data, fail) ==
  LET o == Call("usb_device_open", << >>, fail)
      t == Call("TESTFX3", data, fail)
      caps == Capabilities(data[1])
  IN  IF ~o.ok THEN [ret |-> 0, cmds |-> << o >>, this |-> NoHandle]
      ELSE IF ~t.ok
        THEN [ret |-> 0, this |-> NoHandle, cmds |-> << o, t >>]
        ELSE [ret |-> 1, cmds |-> << o, t >>,
              this |-> [status |-> "SDDC_STATUS_READY",
                        model |-> data[1],
                        firmware |-> data[2] * 256 + data[3],
                        rf_mode |-> "HF_MODE",
                        streaming |-> 0,
                        has_clock_source |-> caps.has_clock_source,
                        has_vhf_tuner |-> caps.has_vhf_tuner,
                        hf_attenuator_levels |-> caps.hf_attenuator_levels,
                        sample_rate |-> DEFAULT_SAMPLE_RATE,
                        tuner_frequency |-> DEFAULT_TUNER_FREQUENCY,
                        freq_corr_ppm |-> DEFAULT_FREQ_CORR_PPM]]

\* data is the answer of the probe: << model id, firmware high, firmware low >>
sddc_open(data, fail) ==
  LET o == Call("usb_device_open", << >>, fail)
      t == Call("TESTFX3", data, fail)
      caps == Capabilities(data[1])
  IN  IF ~o.ok THEN [ret |-> 0, cmds |-> << o >>, this |-> NoHandle]
      ELSE IF ~t.ok
        THEN [ret |-> 0, this |-> NoHandle,
              cmds |-> << o, t, Call("usb_device_close", << >>, {}) >>]
        ELSE [ret |-> 1, cmds |-> << o, t >>,
              this |-> [status |-> "SDDC_STATUS_READY",
                        model |-> data[1],
                        firmware |-> data[2] * 256 + data[3],
                        rf_mode |-> "HF_MODE",
                        streaming |-> 0,
                        has_clock_source |-> caps.has_clock_source,
                        has_vhf_tuner |-> caps.has_vhf_tuner,
                        hf_attenuator_levels |-> caps.hf_attenuator_levels,
                        sample_rate |-> DEFAULT_SAMPLE_RATE,
                        tuner_frequency |-> DEFAULT_TUNER_FREQUENCY,
                        freq_corr_ppm |-> DEFAULT_FREQ_CORR_PPM]]

\* mutant: a failed reset returns without closing the transport
sddc_close_reset_checked(h, fail) ==
  LET c == Call("RESETFX3", << >>, fail)
  IN  [ret |-> 0, this |-> NoHandle,
       cmds |-> IF c.ok THEN << c, Call("usb_device_close", << >>, {}) >> ELSE << c >>]

\* the function returns nothing: ret is 0 always
sddc_close(h, fail) ==
  [ret |-> 0, this |-> NoHandle,
   cmds |-> << Call("RESETFX3", << >>, fail), Call("usb_device_close", << >>, {}) >>]

\* ------------------------------------------------------------------------
\* sddc_set_rf_mode
\* ------------------------------------------------------------------------
\* mutant: VHF mode is accepted without a look at has_vhf_tuner
sddc_set_rf_mode_unchecked(h, rf_mode) ==
  CASE rf_mode = "HF_MODE" ->
         [ret |-> 0, cmds |-> << >>, this |-> [h EXCEPT !.rf_mode = "HF_MODE"]]
    [] rf_mode = "VHF_MODE" ->
         [ret |-> 0, cmds |-> << >>, this |-> [h EXCEPT !.rf_mode = "VHF_MODE"]]
    [] OTHER -> [ret |-> -1, cmds |-> << >>, this |-> h]

\* mutant: the test of has_vhf_tuner is an assignment
sddc_set_rf_mode_assigns_flag(h, rf_mode) ==
  CASE rf_mode = "HF_MODE" ->
         [ret |-> 0, cmds |-> << >>, this |-> [h EXCEPT !.rf_mode = "HF_MODE"]]
    [] rf_mode = "VHF_MODE" ->
         [ret |-> 0, cmds |-> << >>,
          this |-> [h EXCEPT !.has_vhf_tuner = TRUE, !.rf_mode = "VHF_MODE"]]
    [] OTHER -> [ret |-> -1, cmds |-> << >>, this |-> h]

sddc_set_rf_mode(h, rf_mode) ==
  CASE rf_mode = "HF_MODE" ->
         [ret |-> 0, cmds |-> << >>, this |-> [h EXCEPT !.rf_mode = "HF_MODE"]]
    [] rf_mode = "VHF_MODE" ->
         IF ~h.has_vhf_tuner
           THEN [ret |-> -1, cmds |-> << >>, this |-> h]
           ELSE [ret |-> 0, cmds |-> << >>, this |-> [h EXCEPT !.rf_mode = "VHF_MODE"]]
    [] OTHER -> [ret |-> -1, cmds |-> << >>, this |-> h]

\* ------------------------------------------------------------------------
\* GPIO related functions
\* ------------------------------------------------------------------------
\* mutant: the pattern is shifted and written without validation
sddc_led_unchecked(gpio_call, led_pattern, fail) ==
  LET c == Call(gpio_call, << (led_pattern * (2 ^ GPIO_LED_SHIFT)) % 65536 >>, fail)
  IN  [ret |-> IF c.ok THEN 0 ELSE -1, cmds |-> << c >>]

\* sddc_led_on, sddc_led_off, sddc_led_toggle: gpio_call is the transport
\* function the operation ends in
sddc_led(gpio_call, led_pattern, fail) ==
  IF BitAnd(led_pattern, 255 - LED_MASK) # 0
    THEN [ret |-> -1, cmds |-> << >>]
    ELSE LET c == Call(gpio_call, << (led_pattern * (2 ^ GPIO_LED_SHIFT)) % 65536 >>, fail)
         IN  [ret |-> IF c.ok THEN 0 ELSE -1, cmds |-> << c >>]

\* sddc_set_adc_dither, sddc_set_adc_random, sddc_set_hf_bias,
\* sddc_set_vhf_bias: one bit of the register switched on or off
sddc_set_gpio_bit(bit, on, fail) ==
  LET c == Call(IF on THEN "usb_device_gpio_on" ELSE "usb_device_gpio_off", << bit >>, fail)
  IN  [ret |-> IF c.ok THEN 0 ELSE -1, cmds |-> << c >>]

\* mutant: the byte of the fine attenuator is written without the shift
sddc_set_hf_attenuation_no_shift(h, attenuation, fail) ==
  IF h.hf_attenuator_levels = 0 THEN NoCalls
  ELSE IF h.hf_attenuator_levels = 3 THEN
    LET v == TruncTenths(attenuation)
        bit_pattern == CASE v = 0 -> GPIO_ATT_SEL1
                         [] v = 10 -> GPIO_ATT_SEL0 + GPIO_ATT_SEL1
                         [] v = 20 -> GPIO_ATT_SEL0
                         [] OTHER -> 0
        c == Call("usb_device_gpio_set", << bit_pattern, GPIO_ATT_SEL0 + GPIO_ATT_SEL1 >>, fail)
    IN  IF v \notin {0, 10, 20} THEN [ret |-> -1, cmds |-> << >>]
        ELSE [ret |-> IF c.ok THEN 0 ELSE -1, cmds |-> << c >>]
  ELSE IF h.hf_attenuator_levels = 32 THEN
    IF attenuation < 0 \/ attenuation > 310 THEN [ret |-> -1, cmds |-> << >>]
    ELSE LET data == (31 - TruncTenths(attenuation)) % 256
             c == Call("DAT31FX3", << data >>, fail)
         IN  [ret |-> IF c.ok THEN 0 ELSE -1, cmds |-> << c >>]
  ELSE [ret |-> -1, cmds |-> << >>]

sddc_set_hf_attenuation(h, attenuation, fail) ==
  IF h.hf_attenuator_levels = 0 THEN NoCalls
  ELSE IF h.hf_attenuator_levels = 3 THEN
    LET v == TruncTenths(attenuation)
        bit_pattern == CASE v = 0 -> GPIO_ATT_SEL1
                         [] v = 10 -> GPIO_ATT_SEL0 + GPIO_ATT_SEL1
                         [] v = 20 -> GPIO_ATT_SEL0
                         [] OTHER -> 0
        c == Call("usb_device_gpio_set", << bit_pattern, GPIO_ATT_SEL0 + GPIO_ATT_SEL1 >>, fail)
    IN  IF v \notin {0, 10, 20} THEN [ret |-> -1, cmds |-> << >>]
        ELSE [ret |-> IF c.ok THEN 0 ELSE -1, cmds |-> << c >>]
  ELSE IF h.hf_attenuator_levels = 32 THEN
    IF attenuation < 0 \/ attenuation > 310 THEN [ret |-> -1, cmds |-> << >>]
    ELSE LET data == ((31 - TruncTenths(attenuation)) * 2) % 256
             c == Call("DAT31FX3", << data >>, fail)
         IN  [ret |-> IF c.ok THEN 0 ELSE -1, cmds |-> << c >>]
  ELSE [ret |-> -1, cmds |-> << >>]

\* ------------------------------------------------------------------------
\* VHF/UHF tuner related functions
\* ------------------------------------------------------------------------
sddc_set_tuner_frequency(h, frequency, fail) ==
  LET c == Call("R820T2TUNE", << frequency >>, fail)
  IN  IF ~c.ok THEN [ret |-> -1, cmds |-> << c >>, this |-> h]
      ELSE [ret |-> 0, cmds |-> << c >>, this |-> [h EXCEPT !.tuner_frequency = frequency]]

\* the loop of sddc_set_tuner_attenuation from index i on, with idx the best
\* index so far and idx_att its distance
\* mutant: an entry at the same distance replaces the best index so far
RECURSIVE NearestIndex_last_wins(_, _, _, _)
NearestIndex_last_wins(attenuation, i, idx, idx_att) ==
  IF i >= Len(tuner_attenuations_seq) THEN idx
  ELSE LET att == Abs(attenuation - tuner_attenuations_table[i])
       IN  IF att <= idx_att
             THEN NearestIndex_last_wins(attenuation, i + 1, i, att)
             ELSE NearestIndex_last_wins(attenuation, i + 1, idx, idx_att)

RECURSIVE NearestIndex(_, _, _, _)
NearestIndex(attenuation, i, idx, idx_att) ==
  IF i >= Len(tuner_attenuations_seq) THEN idx
  ELSE LET att == Abs(attenuation - tuner_attenuations_table[i])
       IN  IF att < idx_att
             THEN NearestIndex(attenuation, i + 1, i, att)
             ELSE NearestIndex(attenuation, i + 1, idx, idx_att)

\* mutant: the message shows the requested attenuation
sddc_set_tuner_attenuation_logs_request(h, attenuation, fail) ==
  LET idx == NearestIndex(attenuation, 1, 0, Abs(attenuation - tuner_attenuations_table[0]))
      c == Call("R820T2SETATT", << idx >>, fail)
  IN  [ret |-> IF c.ok THEN 0 ELSE -1, cmds |-> << c >>,
       info |-> IF c.ok THEN << attenuation >> ELSE << >>]

\* info is the value of the message "INFO - tuner attenuation set to" that
\* the function writes to stderr, << >> when it writes none
\* data is the byte the device answers to R820T2GETATT; the function returns
\* a double, here in tenths of a dB (-10 for the -1 of a failed transfer).
\* The table is read at index data without a look at its size: outside
\* the table the value read is whatever lies there, garbage
sddc_get_tuner_attenuation(h, data, garbage, fail) ==
  LET c == Call("R820T2GETATT", << data >>, fail)
  IN  IF ~c.ok THEN [ret |-> -10, cmds |-> << c >>, reads |-> << >>]
      ELSE [ret |-> IF data \in DOMAIN tuner_attenuations_table
                      THEN tuner_attenuations_table[data] ELSE garbage,
            cmds |-> << c >>, reads |-> << data >>]

sddc_set_tuner_attenuation(h, attenuation, fail) ==
  LET idx == NearestIndex(attenuation, 1, 0, Abs(attenuation - tuner_attenuations_table[0]))
      c == Call("R820T2SETATT", << idx >>, fail)
  IN  [ret |-> IF c.ok THEN 0 ELSE -1, cmds |-> << c >>,
       info |-> IF c.ok THEN << tuner_attenuations_table[idx] >> ELSE << >>]

\* ------------------------------------------------------------------------
\* streaming related functions
\* ------------------------------------------------------------------------
sddc_set_sample_rate(h, sample_rate) ==
  [ret |-> 0, cmds |-> << >>, this |-> [h EXCEPT !.sample_rate = sample_rate]]

\* mutant: no check for an engine that is already configured
sddc_set_async_params_unchecked(h, fresh, fail) ==
  LET c == Call("streaming_open_async", << >>, fail)
      streaming == IF c.ok THEN fresh ELSE 0
  IN  [ret |-> IF streaming = 0 THEN -1 ELSE 0, cmds |-> << c >>,
       this |-> [h EXCEPT !.streaming = streaming]]

\* fresh is the handle streaming_open_async returns when it succeeds
sddc_set_async_params(h, fresh, fail) ==
  IF h.streaming # 0 THEN [ret |-> -1, cmds |-> << >>, this |-> h]
  ELSE LET c == Call("streaming_open_async", << >>, fail)
           streaming == IF c.ok THEN fresh ELSE 0
       IN  [ret |-> IF streaming = 0 THEN -1 ELSE 0, cmds |-> << c >>,
            this |-> [h EXCEPT !.streaming = streaming]]

\* the steps of sddc_start_streaming after its status check, each with its
\* result and the external calls it issues
\* start the clocks
StartClockStep(h, fail) ==
  IF h.has_clock_source
    THEN sddc_set_clock_source(h, h.sample_rate, h.tuner_frequency, fail)
    ELSE NoCalls

\* tuner in standby
StartStandbyStep(h, fail) ==
  LET c == Call("R820T2STDBY", << >>, fail)
  IN  IF h.has_vhf_tuner THEN [ret |-> IF c.ok THEN 0 ELSE -1, cmds |-> << c >>] ELSE NoCalls

\* set HF and VHF attenuation to 0
StartHfAttenuationStep(h, fail) == sddc_set_hf_attenuation(h, 0, fail)

StartTunerAttenuationStep(h, fail) ==
  IF h.has_vhf_tuner THEN sddc_set_tuner_attenuation(h, 0, fail) ELSE NoCalls

\* start async streaming; the result of streaming_set_sample_rate is not used
StartEngineStep(h, fail) ==
  LET c == Call("streaming_start", << h.streaming >>, fail)
  IN  IF h.streaming # 0
        THEN [ret |-> IF c.ok THEN 0 ELSE -1,
              cmds |-> << Call("streaming_set_sample_rate", << h.streaming, h.sample_rate >>, {}), c >>]
        ELSE NoCalls

\* start the producer
StartProducerStep(h, fail) ==
  LET c == Call("STARTFX3", << >>, fail)
  IN  [ret |-> IF c.ok THEN 0 ELSE -1, cmds |-> << c >>]

\* mutant: the producer is started before the streaming engine
StartSteps_producer_first(h, fail) ==
  << StartClockStep(h, fail), StartStandbyStep(h, fail), StartHfAttenuationStep(h, fail),
     StartTunerAttenuationStep(h, fail), StartProducerStep(h, fail), StartEngineStep(h, fail) >>

\* the steps of sddc_start_streaming in program order
StartSteps(h, fail) ==
  << StartClockStep(h, fail), StartStandbyStep(h, fail), StartHfAttenuationStep(h, fail),
     StartTunerAttenuationStep(h, fail), StartEngineStep(h, fail), StartProducerStep(h, fail) >>

\* mutant: the failure of a step other than the last one is not acted upon
RECURSIVE RunSteps_no_abort(_, _, _)
RunSteps_no_abort(steps, i, cmds) ==
  IF i > Len(steps) THEN [ret |-> 0, cmds |-> cmds]
  ELSE IF steps[i].ret < 0 /\ i = Len(steps) THEN [ret |-> -1, cmds |-> cmds \o steps[i].cmds]
  ELSE RunSteps_no_abort(steps, i + 1, cmds \o steps[i].cmds)

\* runs the steps from step i on, cmds being the calls issued so far: a step
\* that fails makes the function return -1 at once
RECURSIVE RunSteps(_, _, _)
RunSteps(steps, i, cmds) ==
  IF i > Len(steps) THEN [ret |-> 0, cmds |-> cmds]
  ELSE IF steps[i].ret < 0 THEN [ret |-> -1, cmds |-> cmds \o steps[i].cmds]
  ELSE RunSteps(steps, i + 1, cmds \o steps[i].cmds)

sddc_start_streaming(h, fail) ==
  IF h.status # "SDDC_STATUS_READY" THEN [ret |-> -1, cmds |-> << >>, this |-> h]
  ELSE LET r == RunSteps(StartSteps(h, fail), 1, << >>)
       IN  IF r.ret < 0 THEN [ret |-> -1, cmds |-> r.cmds, this |-> h]
           ELSE [ret |-> 0, cmds |-> r.cmds,
                 this |-> [h EXCEPT !.status = "SDDC_STATUS_STREAMING"]]

sddc_handle_events(fail) ==
  LET c == Call("usb_device_handle_events", << >>, fail)
  IN  [ret |-> IF c.ok THEN 0 ELSE -1, cmds |-> << c >>]

\* the steps of sddc_stop_streaming after its status check
\* stop the producer
StopProducerStep(h, fail) ==
  LET c == Call("STOPFX3", << >>, fail)
  IN  [ret |-> IF c.ok THEN 0 ELSE -1, cmds |-> << c >>]

\* stop async streaming
StopEngineStep(h, fail) ==
  LET c == Call("streaming_stop", << h.streaming >>, fail)
  IN  IF h.streaming # 0 THEN [ret |-> IF c.ok THEN 0 ELSE -1, cmds |-> << c >>] ELSE NoCalls

\* mutant: the clocks are stopped only on a device that has a clock source
StopClockStep_if_clock_source(h, fail) ==
  IF h.has_clock_source THEN sddc_set_clock_source(h, 0, 0, fail) ELSE NoCalls

\* stop the clocks
StopClockStep(h, fail) == sddc_set_clock_source(h, 0, 0, fail)

\* the steps of sddc_stop_streaming in program order
StopSteps(h, fail) ==
  << StopProducerStep(h, fail), StopEngineStep(h, fail), StopClockStep(h, fail) >>

\* mutant: no check of the status on entry
sddc_stop_streaming_unchecked(h, fail) ==
  LET r == RunSteps(StopSteps(h, fail), 1, << >>)
  IN  IF r.ret < 0 THEN [ret |-> -1, cmds |-> r.cmds, this |-> h]
      ELSE [ret |-> 0, cmds |-> r.cmds, this |-> [h EXCEPT !.status = "SDDC_STATUS_READY"]]

\* mutant: the status is set to READY before the steps have succeeded
sddc_stop_streaming_early_ready(h, fail) ==
  IF h.status # "SDDC_STATUS_STREAMING" THEN [ret |-> -1, cmds |-> << >>, this |-> h]
  ELSE LET r == RunSteps(StopSteps(h, fail), 1, << >>)
       IN  [ret |-> r.ret, cmds |-> r.cmds, this |-> [h EXCEPT !.status = "SDDC_STATUS_READY"]]

sddc_stop_streaming(h, fail) ==
  IF h.status # "SDDC_STATUS_STREAMING" THEN [ret |-> -1, cmds |-> << >>, this |-> h]
  ELSE LET r == RunSteps(StopSteps(h, fail), 1, << >>)
       IN  IF r.ret < 0 THEN [ret |-> -1, cmds |-> r.cmds, this |-> h]
           ELSE [ret |-> 0, cmds |-> r.cmds,
                 this |-> [h EXCEPT !.status = "SDDC_STATUS_READY"]]

\* ------------------------------------------------------------------------
\* Misc functions
\* ------------------------------------------------------------------------
\* mutant: the correction is stored before the clock generator is reprogrammed
sddc_set_frequency_correction_store_first(h, correction, fail) ==
  LET clock == IF h.status = "SDDC_STATUS_STREAMING"
                 THEN sddc_set_clock_source(h, h.sample_rate, h.tuner_frequency, fail)
                 ELSE NoCalls
  IN  [ret |-> IF clock.ret < 0 THEN -1 ELSE 0, cmds |-> clock.cmds,
       this |-> [h EXCEPT !.freq_corr_ppm = correction]]

sddc_set_frequency_correction(h, correction, fail) ==
  LET clock == IF h.status = "SDDC_STATUS_STREAMING"
                 THEN sddc_set_clock_source(h, h.sample_rate, h.tuner_frequency, fail)
                 ELSE NoCalls
  IN  IF clock.ret < 0 THEN [ret |-> -1, cmds |-> clock.cmds, this |-> h]
      ELSE [ret |-> 0, cmds |-> clock.cmds, this |-> [h EXCEPT !.freq_corr_ppm = correction]]

\* ------------------------------------------------------------------------
\* The state machine: one action per API call
\* ------------------------------------------------------------------------
\* the value of last before the first call
NoCall ==
  [op |-> "none", arg |-> << >>, ret |-> 0, cmds |-> << >>, info |-> << >>, reads |-> << >>,
   pre |-> NoHandle]

\* an engine that has not been started
EngineIdle == [started |-> FALSE, starts |-> 0]

\* the engine after the calls cmds, e being the engine before: started tells
\* whether the engine runs (its start has succeeded and no stop has
\* succeeded since), starts counts the calls of streaming_start since the
\* last call of streaming_stop, 2 standing for two or more; a call that
\* fails leaves started as it was
RECURSIVE EngineAfter(_, _)
EngineAfter(e, cmds) ==
  IF cmds = << >> THEN e
  ELSE LET c == Head(cmds)
       IN  EngineAfter(CASE c.cmd = "streaming_open_async" -> IF c.ok THEN EngineIdle ELSE e
                         [] c.cmd = "streaming_start" ->
                              [started |-> e.started \/ c.ok,
                               starts |-> IF e.starts < 2 THEN e.starts + 1 ELSE 2]
                         [] c.cmd = "streaming_stop" ->
                              [started |-> e.started /\ ~c.ok, starts |-> 0]
                         [] OTHER -> e,
                       Tail(cmds))

Init ==
  /\ this = NoHandle
  /\ opened = NoHandle
  /\ usb_open = FALSE
  /\ last = NoCall
  /\ engine = EngineIdle

IsOpen == this # NoHandle

\* whether a transport handle is open after the calls cmds, u telling
\* whether one was open before: usb_device_open makes one when it succeeds,
\* usb_device_close releases it
RECURSIVE UsbOpenAfter(_, _)
UsbOpenAfter(u, cmds) ==
  IF cmds = << >> THEN u
  ELSE LET c == Head(cmds)
       IN  UsbOpenAfter(CASE c.cmd = "usb_device_open" -> c.ok
                          [] c.cmd = "usb_device_close" -> FALSE
                          [] OTHER -> u,
                        Tail(cmds))

\* the record of a call op(arg) that returned r.ret after issuing r.cmds;
\* info is the value the call showed in a message on stderr, if any, reads
\* the indexes at which sddc_get_tuner_attenuation read the table
Record(op, arg, r) ==
  [op |-> op, arg |-> arg, ret |-> r.ret, cmds |-> r.cmds, info |-> << >>, reads |-> << >>,
   pre |-> this]

Open ==
  /\ ~IsOpen
  /\ \E model \in ModelIds, hi \in FirmwareHi, lo \in FirmwareLo,
        fail \in FailSets({"usb_device_open", "TESTFX3"}) :
       LET r == sddc_open(<< model, hi, lo >>, fail)
       IN  /\ this' = r.this
           /\ opened' = r.this
           /\ usb_open' = UsbOpenAfter(usb_open, r.cmds)
           /\ last' = Record("sddc_open", << model, hi, lo >>, r)
           /\ engine' = EngineIdle

Close ==
  /\ IsOpen
  /\ \E fail \in FailSets({"RESETFX3"}) :
       LET r == sddc_close(this, fail)
       IN  /\ this' = r.this
           /\ opened' = NoHandle
           /\ usb_open' = UsbOpenAfter(usb_open, r.cmds)
           /\ last' = Record("sddc_close", << >>, r)
           /\ engine' = EngineIdle

SetRfMode ==
  /\ IsOpen
  /\ \E rf_mode \in RFModes :
       LET r == sddc_set_rf_mode(this, rf_mode)
       IN  /\ this' = r.this
           /\ last' = Record("sddc_set_rf_mode", << rf_mode >>, r)
  /\ UNCHANGED << opened, usb_open, engine >>

Led ==
  /\ IsOpen
  /\ \E op \in {"on", "off", "toggle"} :
     \E led_pattern \in LedPatterns, fail \in FailSets({"usb_device_gpio_" \o op}) :
       LET r == sddc_led("usb_device_gpio_" \o op, led_pattern, fail)
       IN  last' = Record("sddc_led_" \o op, << led_pattern >>, r)
  /\ UNCHANGED << this, opened, usb_open, engine >>

SetGpioBit ==
  /\ IsOpen
  /\ \E f \in { << "sddc_set_adc_dither", GPIO_ADC_DITH >>,
                << "sddc_set_adc_random", GPIO_ADC_RAND >>,
                << "sddc_set_hf_bias", GPIO_BIAS_HF >>,
                << "sddc_set_vhf_bias", GPIO_BIAS_VHF >> },
        on \in BOOLEAN :
     \E fail \in FailSets({IF on THEN "usb_device_gpio_on" ELSE "usb_device_gpio_off"}) :
       LET r == sddc_set_gpio_bit(f[2], on, fail)
       IN  last' = Record(f[1], << on >>, r)
  /\ UNCHANGED << this, opened, usb_open, engine >>

SetHfAttenuation ==
  /\ IsOpen
  /\ \E attenuation \in HFAttenuations,
        fail \in FailSets({"usb_device_gpio_set", "DAT31FX3"}) :
       LET r == sddc_set_hf_attenuation(this, attenuation, fail)
       IN  last' = Record("sddc_set_hf_attenuation", << attenuation >>, r)
  /\ UNCHANGED << this, opened, usb_open, engine >>

SetTunerFrequency ==
  /\ IsOpen
  /\ \E frequency \in TunerFrequencies, fail \in FailSets({"R820T2TUNE"}) :
       LET r == sddc_set_tuner_frequency(this, frequency, fail)
       IN  /\ this' = r.this
           /\ last' = Record("sddc_set_tuner_frequency", << frequency >>, r)
  /\ UNCHANGED << opened, usb_open, engine >>

SetTunerAttenuation ==
  /\ IsOpen
  /\ \E attenuation \in TunerAttenuations, fail \in FailSets({"R820T2SETATT"}) :
       LET r == sddc_set_tuner_attenuation(this, attenuation, fail)
       IN  last' = [Record("sddc_set_tuner_attenuation", << attenuation >>, r)
                      EXCEPT !.info = r.info]
  /\ UNCHANGED << this, opened, usb_open, engine >>

SetSampleRate ==
  /\ IsOpen
  /\ \E sample_rate \in SampleRates :
       LET r == sddc_set_sample_rate(this, sample_rate)
       IN  /\ this' = r.this
           /\ last' = Record("sddc_set_sample_rate", << sample_rate >>, r)
  /\ UNCHANGED << opened, usb_open, engine >>

SetAsyncParams ==
  /\ IsOpen
  /\ \E fresh \in EngineHandles, fail \in FailSets({"streaming_open_async"}) :
       LET r == sddc_set_async_params(this, fresh, fail)
       IN  /\ this' = r.this
           /\ last' = Record("sddc_set_async_params", << >>, r)
           /\ engine' = EngineAfter(engine, r.cmds)
  /\ UNCHANGED << opened, usb_open >>

StartStreaming ==
  /\ IsOpen
  /\ \E fail \in StartFails :
       LET r == sddc_start_streaming(this, fail)
       IN  /\ this' = r.this
           /\ last' = Record("sddc_start_streaming", << >>, r)
           /\ engine' = EngineAfter(engine, r.cmds)
  /\ UNCHANGED << opened, usb_open >>

HandleEvents ==
  /\ IsOpen
  /\ \E fail \in FailSets({"usb_device_handle_events"}) :
       LET r == sddc_handle_events(fail)
       IN  last' = Record("sddc_handle_events", << >>, r)
  /\ UNCHANGED << this, opened, usb_open, engine >>

StopStreaming ==
  /\ IsOpen
  /\ \E fail \in StopFails :
       LET r == sddc_stop_streaming(this, fail)
       IN  /\ this' = r.this
           /\ last' = Record("sddc_stop_streaming", << >>, r)
           /\ engine' = EngineAfter(engine, r.cmds)
  /\ UNCHANGED << opened, usb_open >>

SetFrequencyCorrection ==
  /\ IsOpen
  /\ \E correction \in PpmValues, fail \in FailSets({"SI5351A"}) :
       LET r == sddc_set_frequency_correction(this, correction, fail)
       IN  /\ this' = r.this
           /\ last' = Record("sddc_set_frequency_correction", << correction >>, r)
  /\ UNCHANGED << opened, usb_open, engine >>

Next ==
  \/ Open
  \/ Close
  \/ SetRfMode
  \/ Led
  \/ SetGpioBit
  \/ SetHfAttenuation
  \/ SetTunerFrequency
  \/ SetTunerAttenuation
  \/ SetSampleRate
  \/ SetAsyncParams
  \/ StartStreaming
  \/ HandleEvents
  \/ StopStreaming
  \/ SetFrequencyCorrection

Spec == Init /\ [][Next]_vars

TypeOK ==
  /\ usb_open \in BOOLEAN
  /\ engine \in [started : BOOLEAN, starts : 0..2]
  /\ IsOpen => /\ this.status \in {"SDDC_STATUS_READY", "SDDC_STATUS_STREAMING"}
               /\ this.streaming \in 0..MaxEngines
               /\ this.hf_attenuator_levels \in {0, 3, 32}

\* ------------------------------------------------------------------------
\* Single calls: one API call, with its argument drawn from a wide range,
\* made as the first call on a handle that sddc_open has just returned (or,
\* for sddc_open itself, made while there is no handle)
\* ------------------------------------------------------------------------
\* the handles sddc_open returns
FreshHandles ==
  {sddc_open(<< model, hi, lo >>, {}).this :
     model \in ProbeModelIds, hi \in FirmwareHi, lo \in FirmwareLo}

CallInit ==
  /\ this \in FreshHandles \cup {NoHandle}
  /\ opened = this
  /\ usb_open = (this # NoHandle)
  /\ last = NoCall
  /\ engine = EngineIdle

FirstCall == last = NoCall

TunerAttenuationCall ==
  /\ IsOpen
  /\ FirstCall
  /\ \E attenuation \in TunerRequests, fail \in FailSets({"R820T2SETATT"}) :
       LET r == sddc_set_tuner_attenuation(this, attenuation, fail)
       IN  last' = [Record("sddc_set_tuner_attenuation", << attenuation >>, r)
                      EXCEPT !.info = r.info]
  /\ UNCHANGED << this, opened, usb_open, engine >>

HfAttenuationCall ==
  /\ IsOpen
  /\ FirstCall
  /\ \E attenuation \in HfRequests,
        fail \in FailSets({"usb_device_gpio_set", "DAT31FX3"}) :
       LET r == sddc_set_hf_attenuation(this, attenuation, fail)
       IN  last' = Record("sddc_set_hf_attenuation", << attenuation >>, r)
  /\ UNCHANGED << this, opened, usb_open, engine >>

OpenCall ==
  /\ ~IsOpen
  /\ FirstCall
  /\ \E model \in ProbeModelIds, hi \in FirmwareHi, lo \in FirmwareLo,
        fail \in FailSets({"usb_device_open", "TESTFX3"}) :
       LET r == sddc_open(<< model, hi, lo >>, fail)
       IN  /\ this' = r.this
           /\ opened' = r.this
           /\ usb_open' = UsbOpenAfter(usb_open, r.cmds)
           /\ last' = Record("sddc_open", << model, hi, lo >>, r)
           /\ engine' = EngineIdle

LedCall ==
  /\ IsOpen
  /\ FirstCall
  /\ \E op \in {"on", "off", "toggle"} :
     \E led_pattern \in LedBytes, fail \in FailSets({"usb_device_gpio_" \o op}) :
       LET r == sddc_led("usb_device_gpio_" \o op, led_pattern, fail)
       IN  last' = Record("sddc_led_" \o op, << led_pattern >>, r)
  /\ UNCHANGED << this, opened, usb_open, engine >>

GetTunerAttenuationCall ==
  /\ IsOpen
  /\ FirstCall
  /\ \E data \in IndexBytes, fail \in FailSets({"R820T2GETATT"}) :
     \E garbage \in IF data \in DOMAIN tuner_attenuations_table THEN {0} ELSE OutOfTableValues :
       LET r == sddc_get_tuner_attenuation(this, data, garbage, fail)
       IN  last' = [Record("sddc_get_tuner_attenuation", << >>, r) EXCEPT !.reads = r.reads]
  /\ UNCHANGED << this, opened, usb_open, engine >>

CallNext ==
  \/ OpenCall
  \/ GetTunerAttenuationCall
  \/ LedCall
  \/ TunerAttenuationCall
  \/ HfAttenuationCall

CallSpec == CallInit /\ [][CallNext]_vars

\* ------------------------------------------------------------------------
\* Properties
\* ------------------------------------------------------------------------
READY == "SDDC_STATUS_READY"
STREAMING == "SDDC_STATUS_STREAMING"

CmdNames(cmds) == [i \in 1..Len(cmds) |-> cmds[i].cmd]
IsPrefix(s, t) == Len(s) <= Len(t) /\ \A i \in 1..Len(s) : s[i] = t[i]
AllOk(cmds) == \A i \in 1..Len(cmds) : cmds[i].ok
SomeFailed(cmds) == \E i \in 1..Len(cmds) : ~cmds[i].ok
Issued(name) == \E i \in 1..Len(last.cmds) : last.cmds[i].cmd = name

\* the last call was sddc_start_streaming made with status Ready
StartFromReady == last.op = "sddc_start_streaming" /\ last.pre.status = READY
\* the last call was sddc_stop_streaming made with status Streaming
StopFromStreaming == last.op = "sddc_stop_streaming" /\ last.pre.status = STREAMING

\* the external calls of a start on handle h, in the order the claim gives
ExpectedStartCalls(h) ==
  (IF h.has_clock_source THEN << "SI5351A" >> ELSE << >>)
  \o (IF h.has_vhf_tuner THEN << "R820T2STDBY" >> ELSE << >>)
  \o (CASE h.hf_attenuator_levels = 3 -> << "usb_device_gpio_set" >>
        [] h.hf_attenuator_levels = 32 -> << "DAT31FX3" >>
        [] OTHER -> << >>)
  \o (IF h.has_vhf_tuner THEN << "R820T2SETATT" >> ELSE << >>)
  \o (IF h.streaming # 0 THEN << "streaming_set_sample_rate", "streaming_start" >> ELSE << >>)
  \o << "STARTFX3" >>

\* C1: a start made with status Ready issues, in this order and no other,
\* the clock program (if has_clock_source), the tuner standby (if
\* has_vhf_tuner), the HF attenuation of 0 dB, the tuner attenuation of 0 dB
\* (if has_vhf_tuner), the engine's set-sample-rate and start (if an engine
\* exists) and last STARTFX3; a call is issued only after every earlier one
\* has succeeded, and status is Streaming exactly when STARTFX3 was issued
\* and succeeded.
C1_StartOrder ==
  StartFromReady =>
    LET cmds == last.cmds
        expected == ExpectedStartCalls(last.pre)
    IN  /\ IsPrefix(CmdNames(cmds), expected)
        /\ \A i \in 1..(Len(cmds) - 1) : cmds[i].ok
        /\ \A i \in 1..Len(cmds) :
             /\ cmds[i].cmd = "usb_device_gpio_set" =>
                  cmds[i].data = << GPIO_ATT_SEL1, GPIO_ATT_SEL0 + GPIO_ATT_SEL1 >>
             /\ cmds[i].cmd = "DAT31FX3" => cmds[i].data = << 62 >>
             /\ cmds[i].cmd = "R820T2SETATT" =>
                  tuner_attenuations_table[cmds[i].data[1]] = 0
             /\ cmds[i].cmd = "streaming_set_sample_rate" =>
                  cmds[i].data = << last.pre.streaming, last.pre.sample_rate >>
        /\ this.status = STREAMING <=>
             (Len(cmds) = Len(expected) /\ cmds[Len(cmds)].cmd = "STARTFX3" /\ AllOk(cmds))
        /\ this.status = STREAMING <=> last.ret = 0

\* a successful start that went through every step
C1_Witness ==
  /\ StartFromReady
  /\ last.ret = 0
  /\ this.status = STREAMING
  /\ CmdNames(last.cmds) = << "SI5351A", "R820T2STDBY", "usb_device_gpio_set", "R820T2SETATT",
                              "streaming_set_sample_rate", "streaming_start", "STARTFX3" >>

\* C2: when a step of a start made with status Ready fails, the call returns
\* failure, the failed call is the last one issued, and the handle, its
\* status included, is as before the call (Ready).
C2_StartFailure ==
  (StartFromReady /\ SomeFailed(last.cmds)) =>
    /\ last.ret = -1
    /\ \A i \in 1..Len(last.cmds) : ~last.cmds[i].ok => i = Len(last.cmds)
    /\ this.status = READY
    /\ this = last.pre

\* a start whose tuner standby failed on a device with every later step applicable
C2_Witness ==
  /\ StartFromReady
  /\ last.pre.streaming # 0
  /\ last.pre.hf_attenuator_levels = 3
  /\ \E i \in 1..Len(last.cmds) : last.cmds[i].cmd = "R820T2STDBY" /\ ~last.cmds[i].ok

\* C3: a start made while Streaming and a stop made while Ready return
\* failure, issue no external call and leave the handle unchanged.
C3_StateMismatch ==
  (\/ (last.op = "sddc_start_streaming" /\ last.pre.status = STREAMING)
   \/ (last.op = "sddc_stop_streaming" /\ last.pre.status = READY)) =>
    /\ last.ret = -1
    /\ last.cmds = << >>
    /\ this = last.pre

\* a stop made on a Ready handle that has an engine
C3_Witness ==
  /\ last.op = "sddc_stop_streaming"
  /\ last.pre.status = READY
  /\ last.pre.streaming # 0

\* C4: a stop made with status Streaming issues STOPFX3, then the engine's
\* stop (if an engine exists), then the clock program with words (0, 0)
\* whatever has_clock_source is; status is Ready exactly when all of them
\* were issued and succeeded, and otherwise the call fails with status
\* Streaming.
C4_StopOrder ==
  StopFromStreaming =>
    LET cmds == last.cmds
        expected == << "STOPFX3" >>
                    \o (IF last.pre.streaming # 0 THEN << "streaming_stop" >> ELSE << >>)
                    \o << "SI5351A" >>
        complete == Len(cmds) = Len(expected) /\ AllOk(cmds)
    IN  /\ IsPrefix(CmdNames(cmds), expected)
        /\ \A i \in 1..(Len(cmds) - 1) : cmds[i].ok
        /\ \A i \in 1..Len(cmds) : cmds[i].cmd = "SI5351A" => cmds[i].data = << 0, 0 >>
        /\ complete => (last.ret = 0 /\ this.status = READY)
        /\ ~complete => (last.ret = -1 /\ this.status = STREAMING)

\* a successful stop on a device without a clock source
C4_Witness ==
  /\ StopFromStreaming
  /\ ~last.pre.has_clock_source
  /\ last.ret = 0
  /\ this.status = READY
  /\ Issued("SI5351A")

\* C5: a frequency correction set while Streaming reprograms the clock
\* generator with words computed from the new correction (the argument)
\* and the stored sample rate and tuner frequency.
C5_NewCorrectionApplied ==
  (last.op = "sddc_set_frequency_correction" /\ last.pre.status = STREAMING) =>
    /\ Len(last.cmds) = 1
    /\ last.cmds[1].cmd = "SI5351A"
    /\ last.cmds[1].data = << CorrectedWord(last.arg[1], last.pre.sample_rate),
                              CorrectedWord(last.arg[1], last.pre.tuner_frequency) >>

\* C6: when the reprogram of a frequency correction set while Streaming
\* fails, the call fails and the stored correction is unchanged; set while
\* Ready, the call issues no external call, stores the correction and
\* succeeds.
C6_CorrectionStored ==
  last.op = "sddc_set_frequency_correction" =>
    /\ (last.pre.status = STREAMING /\ SomeFailed(last.cmds)) =>
         (last.ret = -1 /\ this.freq_corr_ppm = last.pre.freq_corr_ppm)
    /\ last.pre.status = READY =>
         (last.cmds = << >> /\ last.ret = 0 /\ this.freq_corr_ppm = last.arg[1])

\* a failed reprogram for a correction other than the stored one
C6_Witness ==
  /\ last.op = "sddc_set_frequency_correction"
  /\ last.pre.status = STREAMING
  /\ SomeFailed(last.cmds)
  /\ last.arg[1] # last.pre.freq_corr_ppm

\* the last call was made on an open handle and left it open
OnOpenHandle == IsOpen /\ last.pre # NoHandle

\* C7: on an open handle, status changes only from Ready to Streaming by a
\* successful start and from Streaming to Ready by a successful stop; every
\* successful start or stop changes it.
C7_StatusTransitions ==
  OnOpenHandle =>
    /\ this.status # last.pre.status =>
         \/ /\ last.op = "sddc_start_streaming" /\ last.ret = 0
            /\ last.pre.status = READY /\ this.status = STREAMING
         \/ /\ last.op = "sddc_stop_streaming" /\ last.ret = 0
            /\ last.pre.status = STREAMING /\ this.status = READY
    /\ (last.op \in {"sddc_start_streaming", "sddc_stop_streaming"} /\ last.ret = 0) =>
         this.status # last.pre.status

\* a stop that failed after its first call, status still Streaming
C7_Witness ==
  /\ OnOpenHandle
  /\ last.op = "sddc_stop_streaming"
  /\ last.ret = -1
  /\ Len(last.cmds) > 1
  /\ this.status = STREAMING

\* C8: model, firmware version and capability flags of an open handle are
\* those sddc_open set.
C8_CapabilitiesFixed ==
  IsOpen =>
    /\ this.model = opened.model
    /\ this.firmware = opened.firmware
    /\ this.has_clock_source = opened.has_clock_source
    /\ this.has_vhf_tuner = opened.has_vhf_tuner
    /\ this.hf_attenuator_levels = opened.hf_attenuator_levels

\* a successful stop, which follows a successful start, on a handle whose
\* other fields have been changed since sddc_open
C8_Witness ==
  /\ IsOpen
  /\ last.op = "sddc_stop_streaming"
  /\ last.ret = 0
  /\ this.status = READY
  /\ this.sample_rate # opened.sample_rate
  /\ this.streaming # opened.streaming

\* C9: sddc_set_rf_mode(HF) succeeds; sddc_set_rf_mode(VHF) fails on a
\* device without VHF tuner and leaves rf_mode unchanged; rf_mode is VHF
\* only on a device with a VHF tuner.
C9_RfMode ==
  /\ (last.op = "sddc_set_rf_mode" /\ last.arg = << "HF_MODE" >>) =>
       (last.ret = 0 /\ this.rf_mode = "HF_MODE")
  /\ (last.op = "sddc_set_rf_mode" /\ last.arg = << "VHF_MODE" >> /\ ~last.pre.has_vhf_tuner) =>
       (last.ret = -1 /\ this.rf_mode = last.pre.rf_mode)
  /\ (IsOpen /\ this.rf_mode = "VHF_MODE") => this.has_vhf_tuner

\* VHF mode refused on a device without VHF tuner
C9_Witness ==
  /\ last.op = "sddc_set_rf_mode"
  /\ last.arg = << "VHF_MODE" >>
  /\ ~last.pre.has_vhf_tuner
  /\ last.ret = -1

\* C10: once the handle has a streaming engine, sddc_set_async_params fails
\* without calling streaming_open_async, and no call other than sddc_close
\* changes the engine handle.
C10_EngineCreatedOnce ==
  (OnOpenHandle /\ last.pre.streaming # 0) =>
    /\ this.streaming = last.pre.streaming
    /\ last.op = "sddc_set_async_params" => (last.ret = -1 /\ last.cmds = << >>)

\* a second sddc_set_async_params on a handle that has an engine
C10_Witness ==
  /\ OnOpenHandle
  /\ last.op = "sddc_set_async_params"
  /\ last.pre.streaming # 0

\* the index written by the last call, a tuner attenuation call
WrittenIndex == last.cmds[1].data[1]
TableIndices == 0..(Len(tuner_attenuations_seq) - 1)
Distance(a, i) == Abs(a - tuner_attenuations_table[i])

\* C11: the index that sddc_set_tuner_attenuation(a) writes with
\* R820T2SETATT is at minimal distance |a - table[index]| among the 29
\* entries, and is the lowest of the indices at that distance; a request of
\* 5.0 writes the index of 3.7.
C11_NearestLowestIndex ==
  last.op = "sddc_set_tuner_attenuation" =>
    /\ Len(last.cmds) = 1
    /\ last.cmds[1].cmd = "R820T2SETATT"
    /\ WrittenIndex \in TableIndices
    /\ Len(tuner_attenuations_seq) = 29
    /\ \A j \in TableIndices :
         /\ Distance(last.arg[1], WrittenIndex) <= Distance(last.arg[1], j)
         /\ Distance(last.arg[1], WrittenIndex) = Distance(last.arg[1], j) => WrittenIndex <= j
    /\ last.arg[1] = 50 => tuner_attenuations_table[WrittenIndex] = 37

\* a request midway between 3.7 and 7.7, which writes the index of 3.7
C11_Witness ==
  /\ last.op = "sddc_set_tuner_attenuation"
  /\ last.arg[1] = 57
  /\ Distance(57, 4) = Distance(57, 5)
  /\ WrittenIndex = 4

\* C19 as stated: the value a successful sddc_set_tuner_attenuation(a)
\* returns to its caller is the calibrated value table[index] of the index
\* it selected.
C19_ReportedToCaller ==
  (last.op = "sddc_set_tuner_attenuation" /\ AllOk(last.cmds)) =>
    last.ret = tuner_attenuations_table[WrittenIndex]

\* C19 as amended: a successful sddc_set_tuner_attenuation(a) returns 0, and
\* the value it shows in its message on stderr is the calibrated value
\* table[index] of the index it wrote (3.7 for a request of 5.0); a failed
\* call shows no value.
C19_LoggedEffectiveAttenuation ==
  last.op = "sddc_set_tuner_attenuation" =>
    /\ AllOk(last.cmds) =>
         /\ last.ret = 0
         /\ last.info = << tuner_attenuations_table[WrittenIndex] >>
         /\ last.arg[1] = 50 => last.info = << 37 >>
    /\ ~AllOk(last.cmds) => (last.ret = -1 /\ last.info = << >>)

\* a successful request of 5.0, shown as 3.7
C19_Witness ==
  /\ last.op = "sddc_set_tuner_attenuation"
  /\ last.arg[1] = 50
  /\ last.ret = 0
  /\ last.info = << 37 >>

\* C12: on a device with the three-level HF attenuator,
\* sddc_set_hf_attenuation accepts exactly 0, 10 and 20 dB, writing the
\* select pattern of the value under the mask ATT_SEL0 | ATT_SEL1; every
\* other request, such as 10.5 or 25, fails without a GPIO write.
C12_CoarseExactValues ==
  (last.op = "sddc_set_hf_attenuation" /\ last.pre.hf_attenuator_levels = 3) =>
    IF last.arg[1] \in {0, 100, 200}
      THEN /\ Len(last.cmds) = 1
           /\ last.cmds[1].cmd = "usb_device_gpio_set"
           /\ last.cmds[1].data[2] = GPIO_ATT_SEL0 + GPIO_ATT_SEL1
           /\ last.cmds[1].data[1] =
                (CASE last.arg[1] = 0 -> GPIO_ATT_SEL1
                   [] last.arg[1] = 100 -> GPIO_ATT_SEL0 + GPIO_ATT_SEL1
                   [] last.arg[1] = 200 -> GPIO_ATT_SEL0)
           /\ last.ret = (IF last.cmds[1].ok THEN 0 ELSE -1)
      ELSE last.ret = -1 /\ last.cmds = << >>

\* C13: on a device with the 32-level HF attenuator,
\* sddc_set_hf_attenuation(v) with v in [0, 31] issues one DAT31FX3 transfer
\* of the single byte (31 - floor(v)) << 1, an even value in 0..62 (32 for
\* v = 15), and succeeds when the transfer does; with v < 0 or v > 31 it
\* fails without a transfer.  On a device without HF attenuator the call
\* succeeds without any external call.
C13_FineAttenuation ==
  last.op = "sddc_set_hf_attenuation" =>
    /\ (last.pre.hf_attenuator_levels = 32 /\ last.arg[1] >= 0 /\ last.arg[1] <= 310) =>
         /\ Len(last.cmds) = 1
         /\ last.cmds[1].cmd = "DAT31FX3"
         /\ last.cmds[1].data = << (31 - (last.arg[1] \div 10)) * 2 >>
         /\ last.cmds[1].data[1] \in 0..62
         /\ last.cmds[1].data[1] % 2 = 0
         /\ last.arg[1] = 150 => last.cmds[1].data = << 32 >>
         /\ last.ret = (IF last.cmds[1].ok THEN 0 ELSE -1)
    /\ (last.pre.hf_attenuator_levels = 32 /\ (last.arg[1] < 0 \/ last.arg[1] > 310)) =>
         (last.ret = -1 /\ last.cmds = << >>)
    /\ last.pre.hf_attenuator_levels = 0 => (last.ret = 0 /\ last.cmds = << >>)

\* a request of 15.5 dB on the 32-level attenuator, written as 32
C13_Witness ==
  /\ last.op = "sddc_set_hf_attenuation"
  /\ last.pre.hf_attenuator_levels = 32
  /\ last.arg[1] = 155
  /\ last.ret = 0
  /\ last.cmds[1].data = << 32 >>

\* round(f * (1 + ppm * 1e-6)) for f >= 0 and ppm >= 0, a value below 2^32
\* for the frequencies of the model
RoundedWord(ppm, f) == f + ((2 * ppm * f + 1000000) \div 2000000)

\* C14: every clock program (SI5351A) carries, in one transfer, two words
\* that are round(f * (1 + ppm * 1e-6)) of the ADC sampling frequency and
\* of the tuner reference frequency it was called with, ppm being the
\* stored correction; with ppm = 0 each word is f.
C14_RoundedWords ==
  \A i \in 1..Len(last.cmds) :
    last.cmds[i].cmd = "SI5351A" =>
      LET ppm == last.pre.freq_corr_ppm
          adc == IF last.op = "sddc_stop_streaming" THEN 0 ELSE last.pre.sample_rate
          tuner == IF last.op = "sddc_stop_streaming" THEN 0 ELSE last.pre.tuner_frequency
      IN  /\ last.cmds[i].data = << RoundedWord(ppm, adc), RoundedWord(ppm, tuner) >>
          /\ ppm = 0 => last.cmds[i].data = << adc, tuner >>

\* C15: the handle sddc_open returns has the capability flags of its
\* model: BBRF103 and RX888 have a clock source, a VHF tuner and the
\* 3-level HF attenuator, HF103 has neither and the 32-level attenuator,
\* every other model id has neither and no attenuator; its status is Ready
\* and its rf_mode HF.
C15_CapabilitiesByModel ==
  (last.op = "sddc_open" /\ last.ret = 1) =>
    LET model == last.arg[1]
        flags == << this.has_clock_source, this.has_vhf_tuner, this.hf_attenuator_levels >>
    IN  /\ this.model = model
        /\ model \in {"HW_BBRF103", "HW_RX888"} => flags = << TRUE, TRUE, 3 >>
        /\ model = "HW_HF103" => flags = << FALSE, FALSE, 32 >>
        /\ model \notin {"HW_BBRF103", "HW_RX888", "HW_HF103"} => flags = << FALSE, FALSE, 0 >>
        /\ this.status = READY
        /\ this.rf_mode = "HF_MODE"

\* sddc_open has returned a handle for a model id the switch does not name
C15_Witness ==
  /\ last.op = "sddc_open"
  /\ last.ret = 1
  /\ last.arg[1] = "HW_UNKNOWN"
  /\ this.hf_attenuator_levels = 0

\* the number of calls of name in cmds
CountCalls(cmds, name) == Cardinality({i \in 1..Len(cmds) : cmds[i].cmd = name})

\* C16: a sddc_open whose usb_device_open or TESTFX3 fails returns no
\* handle; after a failed TESTFX3 usb_device_close is called exactly once,
\* as the last call; no transport handle is open while there is no device
\* handle.
C16_FailedOpenReleases ==
  /\ (last.op = "sddc_open" /\ SomeFailed(last.cmds)) =>
       /\ last.ret = 0
       /\ this = NoHandle
       /\ CmdNames(last.cmds) \in
            {<< "usb_device_open" >>, << "usb_device_open", "TESTFX3", "usb_device_close" >>}
       /\ CountCalls(last.cmds, "usb_device_close") = (IF last.cmds[1].ok THEN 1 ELSE 0)
  /\ usb_open => IsOpen

\* sddc_open has failed at the probe, after the transport was opened
C16_Witness ==
  /\ last.op = "sddc_open"
  /\ Len(last.cmds) >= 2
  /\ last.cmds[1].ok
  /\ ~last.cmds[2].ok
  /\ ~usb_open
  /\ ~IsOpen

\* C17: sddc_close calls RESETFX3 and then usb_device_close, once each,
\* whatever the result of RESETFX3 and whatever the status: there is no
\* STOPFX3 and no streaming_stop.
C17_CloseSequence ==
  last.op = "sddc_close" =>
    /\ CmdNames(last.cmds) = << "RESETFX3", "usb_device_close" >>
    /\ ~usb_open
    /\ ~IsOpen

\* sddc_close on a handle that is streaming with an engine, the reset failing
C17_Witness ==
  /\ last.op = "sddc_close"
  /\ last.pre.status = STREAMING
  /\ last.pre.streaming # 0
  /\ ~last.cmds[1].ok
  /\ ~usb_open

\* the last call was one of the three LED operations
LedOperation == last.op \in {"sddc_led_on", "sddc_led_off", "sddc_led_toggle"}
\* the bits of the 16-bit register that are no LED bit
NonLedBits == 65535 - (GPIO_LED_YELLOW + GPIO_LED_RED + GPIO_LED_BLUE)

\* C18: a LED operation whose pattern has a bit outside the three LED bits
\* (a pattern above 7) fails without a GPIO call; with a valid pattern it
\* makes one call, of the GPIO function of its name, whose bits are the
\* pattern shifted left by 10 and hold no bit outside 0x1C00.
C18_LedBitsOnly ==
  LedOperation =>
    LET led_pattern == last.arg[1]
    IN  /\ led_pattern > 7 => (last.ret = -1 /\ last.cmds = << >>)
        /\ led_pattern <= 7 =>
             /\ Len(last.cmds) = 1
             /\ last.cmds[1].cmd =
                  (CASE last.op = "sddc_led_on" -> "usb_device_gpio_on"
                     [] last.op = "sddc_led_off" -> "usb_device_gpio_off"
                     [] OTHER -> "usb_device_gpio_toggle")
             /\ last.cmds[1].data = << led_pattern * 1024 >>
             /\ last.ret = (IF last.cmds[1].ok THEN 0 ELSE -1)
        /\ \A i \in 1..Len(last.cmds) : BitAnd(last.cmds[i].data[1], NonLedBits) = 0

\* a toggle of the three LEDs has been written
C18_Witness ==
  /\ last.op = "sddc_led_toggle"
  /\ last.arg = << 7 >>
  /\ last.ret = 0
  /\ last.cmds[1].data = << 7168 >>

\* C20: on a handle with a streaming engine, streaming_start is not called
\* a second time without a call of streaming_stop in between, and the
\* engine does not run while the status is Ready.
C20_EngineFollowsStatus ==
  (IsOpen /\ this.streaming # 0) =>
    /\ engine.starts <= 1
    /\ this.status = READY => ~engine.started

\* C21: whatever byte the device answers to R820T2GETATT,
\* sddc_get_tuner_attenuation reads the table of 29 entries only at an
\* index of 0..28.
C21_ReadsWithinTable ==
  last.op = "sddc_get_tuner_attenuation" =>
    \A i \in 1..Len(last.reads) : last.reads[i] \in TableIndices

====
